---- MODULE Spec2Model ----
(***************************************************************************)
(* A model of the screen-reader pipeline: the chat/dedup monitor           *)
(* (chat_monitor.py), the capture loop (main.py), the dialog summarizer    *)
(* (dialog_summarizer.py) and the TTS streamer (tts_streamer.py).          *)
(*                                                                         *)
(* Text is a sequence of one-character strings, so that normalisation,     *)
(* stripping, splitting and substring tests are computed as Python         *)
(* computes them.                                                          *)
(***************************************************************************)
EXTENDS Integers, Sequences, FiniteSets, TLC

VARIABLES
    \* ---- ChatMonitor (chat_monitor.py) ----
    seen_messages,        \* set of normalized texts
    recent_messages,      \* list of raw accepted lines, oldest first
    captured_text_file,   \* the transcript file: its lines, in order
    backup_files,         \* captured_text_backup_<ts>.txt: ts -> lines
    last_arg,             \* history: the argument of the last process_text call
    ret,                  \* value returned by the last ChatMonitor call
    accepted,             \* history: lines process_text accepted since the last clear_history
    fed,                  \* history: the inputs of the scripted scenario
    \* ---- MainWindow, the capture loop (main.py) ----
    last_hash,            \* md5 of the last new image; NoHash while the attribute is unset
    last_capture_file,    \* captures/last_capture.jpg: the image it holds, or NoImage
    capture_files,        \* captures/capture_<ts>.jpg: ts -> image
    is_processing_image,
    extraction_calls,     \* history: number of images sent to the vision model
    capture_outcome,      \* history: what the last process_image call found
    \* ---- the dialog directories (dialog_summarizer.py, tts_streamer.py) ----
    unplayed_dir,         \* output/dialogs/dialog_<ts>_<nnn>.txt: <<ts, nnn>> -> number of lines
    played_dir,           \* output/dialogs/played/: <<ts, nnn>> -> number of lines
    played_dir_exists,    \* whether output/dialogs/played/ exists
    \* ---- TTSStreamer (tts_streamer.py) ----
    dialog_queue,         \* asyncio.Queue of dialog files (the text of each item is left out)
    scheduled_puts,       \* puts handed to the loop by run_coroutine_threadsafe, not yet run
    is_speaking,
    should_stop,
    processed_files,
    original_mic_volume,
    mic_volume,           \* the input volume of the operating system
    voice_control,        \* whether Voice Control is listening
    tts_pc,               \* where the worker is: "suspended" in queue.get(), "ready", "streaming"
    current_dialog,       \* the file of the item being played, or None
    stream_result,        \* how the last streaming call ended: "ok", "error", or "none"
    add_calls,            \* history: file -> number of add_dialog calls
    stream_starts,        \* history: file -> number of times streaming was started
    dequeued_once,        \* history: files the worker has taken from the queue
    added_late,           \* history: files added again after the worker had taken them
    takes,                \* history: number of items the worker has taken from the queue
    loop_stopping,        \* the _stopping flag of the worker's event loop
    enqueued,             \* history: the files add_dialog scheduled a put for, in call order
    started,              \* history: the files whose streaming was started, in order
    previous_dialogs,     \* history: the last history context summarize_text built
    submitted,            \* history: the texts given to the model, in order
    \* ---- DialogSummarizer (dialog_summarizer.py) ----
    current_text,
    summarization_in_progress,
    last_summary_time,
    text_changed_during_summarization,
    prompt_files,         \* output/summarize/prompt_<ts>.txt: the set of ts
    response_files,       \* output/summarize/response_<ts>.txt: the set of ts
    sum_pc,               \* caller -> "idle", or "awaiting" the chat-completion call
    call_started,         \* caller -> the second its summarize_text call built the prompt
    runs,                 \* history: number of summarize_text calls that reached the model
    run_text,             \* history: the text given to the last of them
    changes_in_flight,    \* history: transcript changes during the last run
    changes_after,        \* history: transcript changes since the last run ended
    coalesced,            \* history: changes_in_flight as the last run found it
    skipped_once,         \* history: some invocation returned at the in-progress test
    \* ---- MainWindow and RegionSelector (main.py) ----
    selected_window,      \* the bounds of the selected window, or NoRegion
    region,               \* the absolute capture region, or NoRegion
    relative_region,      \* the region relative to the window, or NoRegion
    region_file,          \* region.json: the relative region saved, or NoRegion
    region_selector,      \* the open selector: its window_bounds, selection, initial_region
    region_steps,         \* history: number of region operations so far
    \* ---- wall clock, in seconds ----
    now

chatVars == <<seen_messages, recent_messages, captured_text_file, backup_files, last_arg, ret, accepted>>

captureVars == <<last_hash, last_capture_file, capture_files, is_processing_image,
                 extraction_calls, capture_outcome>>

dirVars == <<unplayed_dir, played_dir, played_dir_exists>>

ttsVars == <<dialog_queue, scheduled_puts, is_speaking, should_stop, processed_files,
             original_mic_volume, mic_volume, voice_control, tts_pc, current_dialog,
             stream_result, add_calls, stream_starts, dequeued_once, added_late,
             takes, loop_stopping>>

historyVars == <<enqueued, started, previous_dialogs, submitted>>

sumVars == <<current_text, summarization_in_progress, last_summary_time,
             text_changed_during_summarization, prompt_files, response_files, sum_pc,
             call_started, runs, run_text, changes_in_flight, changes_after, coalesced,
             skipped_once>>

regionVars == <<selected_window, region, relative_region, region_file, region_selector,
                region_steps>>

vars == <<chatVars, fed, captureVars, dirVars, ttsVars, sumVars, historyVars, regionVars, now>>

-----------------------------------------------------------------------------
(* Bounds *)

NumFillers == 11      \* distinct unrelated lines the chat can scroll through
MaxTime == 1          \* the clock runs from 0 to MaxTime
MaxFed == 3           \* length of a scripted scenario
NumImages == 7        \* distinct screen contents
MaxDialogFiles == 2   \* dialog files in the dialog directories
MaxAdds == 3          \* add_dialog calls in one run
NumCallers == 2       \* coroutines that invoke process_captured_text
MaxResponseLines == 2 \* dialog lines in one response of the summarization model
MaxTranscript == 3   \* process_response is called on transcripts shorter than this
MaxOrigin == 1       \* a window's corner and the mouse have coordinates 0..MaxOrigin
MaxSize == 2         \* widths and heights are 1..MaxSize
MaxRegionSteps == 4  \* region operations in one run

(* Program constants *)

max_recent == 10

-----------------------------------------------------------------------------
(* Characters and Python's str methods *)

UpperCase == <<"A","B","C","D","E","F","G","H","I","J","K","L","M",
               "N","O","P","Q","R","S","T","U","V","W","X","Y","Z">>

LowerCase == <<"a","b","c","d","e","f","g","h","i","j","k","l","m",
               "n","o","p","q","r","s","t","u","v","w","x","y","z">>

Digits == <<"0","1","2","3","4","5","6","7","8","9">>

Range(s) == {s[i] : i \in 1..Len(s)}

\* str.isspace() for one character
isspace(c) == c \in {" ", "\t", "\n", "\r"}

\* str.isalnum() for one character
isalnum(c) == c \in Range(UpperCase) \cup Range(LowerCase) \cup Range(Digits)

\* str.lower() for one character
lower_char(c) ==
    IF c \in Range(UpperCase)
    THEN LowerCase[CHOOSE i \in 1..26 : UpperCase[i] = c]
    ELSE c

\* str.lower()
lower(s) == [i \in 1..Len(s) |-> lower_char(s[i])]

RECURSIVE lstrip(_)
\* str.lstrip()
lstrip(s) == IF s # <<>> /\ isspace(Head(s)) THEN lstrip(Tail(s)) ELSE s

RECURSIVE rstrip(_)
\* str.rstrip()
rstrip(s) ==
    IF s # <<>> /\ isspace(s[Len(s)]) THEN rstrip(SubSeq(s, 1, Len(s) - 1)) ELSE s

\* str.strip()
strip(s) == rstrip(lstrip(s))

RECURSIVE split_from(_, _, _)
\* str.split() with no separator: the maximal runs of non-whitespace characters.
\* s: the characters left, word: the run being read, words: the runs read so far.
split_from(s, word, words) ==
    IF s = <<>>
    THEN IF word = <<>> THEN words ELSE Append(words, word)
    ELSE IF isspace(Head(s))
         THEN split_from(Tail(s), <<>>, IF word = <<>> THEN words ELSE Append(words, word))
         ELSE split_from(Tail(s), Append(word, Head(s)), words)

split(s) == split_from(s, <<>>, <<>>)

RECURSIVE join(_, _)
\* sep.join(words)
join(sep, words) ==
    IF words = <<>> THEN <<>>
    ELSE IF Len(words) = 1 THEN words[1]
    ELSE words[1] \o sep \o join(sep, Tail(words))

\* str.startswith(prefix)
startswith(s, prefix) ==
    Len(s) >= Len(prefix) /\ SubSeq(s, 1, Len(prefix)) = prefix

\* the Python test "a in b" on strings
is_substring(a, b) ==
    \E i \in 0..(Len(b) - Len(a)) : SubSeq(b, i + 1, i + Len(a)) = a

-----------------------------------------------------------------------------
(* The lines the environment submits *)

Hello1 == <<"H","e","l","l","o"," ","t","h","e","r","e",".">>

Hello2 == <<"h","e","l","l","o"," "," "," ","t","h","e","r","e">>

Different == <<"A"," ","c","o","m","p","l","e","t","e","l","y"," ",
               "d","i","f","f","e","r","e","n","t"," ",
               "s","e","n","t","e","n","c","e",".">>

\* five words; the same words with other case, spacing and punctuation
Five == <<"p"," ","q"," ","r"," ","s"," ","t">>

FiveLoud == <<" ","P"," ","q"," "," ","R"," ","s"," ","t","!">>

\* six words holding the five of Five in another order: word overlap 5/6
Six == <<"u"," ","t"," ","s"," ","r"," ","q"," ","p">>

\* four of the words of Five in another order: word overlap 4/5
Four == <<"q"," ","p"," ","s"," ","r">>

\* two words, and the same two in the other order: word overlap 2/2
XY == <<"x"," ","y">>

YX == <<"y"," ","x">>

\* a line of punctuation only: its normalized form is the empty string
Punct == <<"?","!">>

Header == <<"#","#","#"," ","1","2",":","0","0">>

NO_NEW_MESSAGES == <<"N","O","_","N","E","W","_","M","E","S","S","A","G","E","S">>

Blank == <<" "," ">>

HeaderPrefix == <<"#","#","#"," ">>

\* the i-th of the unrelated lines: the two digits of i
Filler(i) == <<Digits[(i \div 10) + 1], Digits[(i % 10) + 1]>>

Fillers == {Filler(i) : i \in 1..NumFillers}

\* lines that arrive at any time while the chat scrolls
Probes == {Five, FiveLoud, Six, Punct, NO_NEW_MESSAGES, Blank}

\* lines of the scripted scenarios
ScenarioLines == {Hello1, Hello2, Different, Five, Six, Four, XY, YX, Header}

Lines == Fillers \cup Probes \cup ScenarioLines

-----------------------------------------------------------------------------
(* ChatMonitor *)

None == <<"None">>

NoFiles == [ts \in {} |-> <<>>]

\* _normalize_message without the lower-casing
_normalize_message_keep_case(text) ==
    LET collapsed == join(<<" ">>, split(text))
    IN  SelectSeq(collapsed, LAMBDA c : isalnum(c) \/ isspace(c) \/ c = ".")

\* ChatMonitor._normalize_message
_normalize_message(text) ==
    LET collapsed == join(<<" ">>, split(lower(text)))
    IN  SelectSeq(collapsed, LAMBDA c : isalnum(c) \/ isspace(c) \/ c = ".")

\* the word-overlap test of _is_similar: overlap / total > 0.8
overlap_exceeds(overlap, total) == total > 0 /\ 10 * overlap > 8 * total

\* _is_similar without the word-overlap test
_is_similar_substring_only(text1, text2) ==
    is_substring(text1, text2) \/ is_substring(text2, text1)

\* ChatMonitor._is_similar, on two normalized texts
_is_similar(text1, text2) ==
    LET words1 == Range(split(text1))
        words2 == Range(split(text2))
        overlap == Cardinality(words1 \cap words2)
        total == Cardinality(words1 \cup words2)
    IN  \/ is_substring(text1, text2)
        \/ is_substring(text2, text1)
        \/ overlap_exceeds(overlap, total)

\* Every text the callers can pass, raw and stripped, with its normalized form
\* and the pairs of normalized forms that are similar, computed once.
AllTexts == Lines \cup {strip(t) : t \in Lines}

\* (f @@ Empty makes TLC tabulate f instead of keeping its defining expression)
Empty == [x \in {} |-> x]

NormalizedTable == [t \in AllTexts |-> _normalize_message(t)] @@ Empty

AllNormalized == {NormalizedTable[t] : t \in AllTexts}

SimilarTable ==
    [p \in AllNormalized \X AllNormalized |-> _is_similar(p[1], p[2])] @@ Empty

\* the call self._normalize_message(text)
normalized_of(text) ==
    IF text \in AllTexts THEN NormalizedTable[text] ELSE _normalize_message(text)

\* the call self._is_similar(text1, text2)
similar(text1, text2) ==
    IF text1 \in AllNormalized /\ text2 \in AllNormalized
    THEN SimilarTable[<<text1, text2>>]
    ELSE _is_similar(text1, text2)

\* _is_duplicate without the test against seen_messages
_is_duplicate_recent_only(text) ==
    LET normalized == normalized_of(text)
    IN  \E i \in 1..Len(recent_messages) :
           similar(normalized, normalized_of(recent_messages[i]))

\* ChatMonitor._is_duplicate
_is_duplicate(text) ==
    LET normalized == normalized_of(text)
    IN  \/ normalized \in seen_messages
        \/ \E i \in 1..Len(recent_messages) :
              similar(normalized, normalized_of(recent_messages[i]))

\* an append that writes nothing
append_line_dropped(file, line, write_ok) == file

\* the append to captured_text_file; write_ok is FALSE when open() or write() raises
append_line(file, line, write_ok) == IF write_ok THEN Append(file, line) ELSE file

\* push_recent dropping the newest entry instead of the oldest
push_recent_drop_newest(recent, new_text) ==
    LET appended == Append(recent, new_text)
    IN  IF Len(appended) > max_recent THEN SubSeq(appended, 1, max_recent) ELSE appended

\* recent_messages.append(new_text), then pop(0) when longer than max_recent
push_recent(recent, new_text) ==
    LET appended == Append(recent, new_text)
    IN  IF Len(appended) > max_recent THEN Tail(appended) ELSE appended

\* a process_text that sends headers through deduplication like any line
is_timestamp_header_never(text) == FALSE

\* the test of a timestamp header in process_text
is_timestamp_header(text) == startswith(text, HeaderPrefix)

\* a process_text that undoes its bookkeeping when the append fails
process_text_rollback(new_text, write_ok) ==
    LET text == strip(new_text)
    IN  /\ last_arg' = new_text
        /\ UNCHANGED backup_files
        /\ IF new_text = NO_NEW_MESSAGES \/ text = <<>>
           THEN /\ ret' = <<>>
                /\ UNCHANGED <<seen_messages, recent_messages, captured_text_file, accepted>>
           ELSE IF is_timestamp_header(text)
           THEN /\ captured_text_file' = append_line(captured_text_file, text, write_ok)
                /\ ret' = text
                /\ UNCHANGED <<seen_messages, recent_messages, accepted>>
           ELSE IF _is_duplicate(text) \/ ~write_ok
           THEN /\ ret' = <<>>
                /\ UNCHANGED <<seen_messages, recent_messages, captured_text_file, accepted>>
           ELSE /\ seen_messages' = seen_messages \cup {normalized_of(text)}
                /\ recent_messages' = push_recent(recent_messages, text)
                /\ captured_text_file' = append_line(captured_text_file, text, write_ok)
                /\ ret' = text
                /\ accepted' = Append(accepted, text)

\* ChatMonitor.process_text
process_text(new_text, write_ok) ==
    LET text == strip(new_text)
    IN  /\ last_arg' = new_text
        /\ UNCHANGED backup_files
        /\ IF new_text = NO_NEW_MESSAGES \/ text = <<>>
           THEN /\ ret' = <<>>
                /\ UNCHANGED <<seen_messages, recent_messages, captured_text_file, accepted>>
           ELSE IF is_timestamp_header(text)
           THEN /\ captured_text_file' = append_line(captured_text_file, text, write_ok)
                /\ ret' = text
                /\ UNCHANGED <<seen_messages, recent_messages, accepted>>
           ELSE IF _is_duplicate(text)
           THEN /\ ret' = <<>>
                /\ UNCHANGED <<seen_messages, recent_messages, captured_text_file, accepted>>
           ELSE /\ seen_messages' = seen_messages \cup {normalized_of(text)}
                /\ recent_messages' = push_recent(recent_messages, text)
                /\ captured_text_file' = append_line(captured_text_file, text, write_ok)
                /\ ret' = text
                /\ accepted' = Append(accepted, text)

\* a clear_history that keeps the recent window
clear_history_keep_recent ==
    /\ seen_messages' = {}
    /\ recent_messages' = recent_messages
    /\ IF captured_text_file # <<>>
       THEN backup_files' = (now :> captured_text_file) @@ backup_files
       ELSE UNCHANGED backup_files
    /\ captured_text_file' = <<>>
    /\ last_arg' = None
    /\ ret' = None
    /\ accepted' = <<>>

\* a clear_history that keeps the seen set
clear_history_keep_seen ==
    /\ seen_messages' = seen_messages
    /\ recent_messages' = <<>>
    /\ IF captured_text_file # <<>>
       THEN backup_files' = (now :> captured_text_file) @@ backup_files
       ELSE UNCHANGED backup_files
    /\ captured_text_file' = <<>>
    /\ last_arg' = None
    /\ ret' = None
    /\ accepted' = <<>>

\* ChatMonitor.clear_history
clear_history ==
    /\ seen_messages' = {}
    /\ recent_messages' = <<>>
    /\ IF captured_text_file # <<>>
       THEN backup_files' = (now :> captured_text_file) @@ backup_files
       ELSE UNCHANGED backup_files
    /\ captured_text_file' = <<>>
    /\ last_arg' = None
    /\ ret' = None
    /\ accepted' = <<>>

(* ChatMonitor.process_response and the responses it is given *)

\* JSON values as json.loads returns them: a type and, for a string its
\* characters, for a number its digits, for an array its elements, for an
\* object its keys in order.
JNull == [type |-> "null", val |-> <<>>]
JNumber(digits) == [type |-> "number", val |-> digits]
JString(chars) == [type |-> "string", val |-> chars]
JArray(elements) == [type |-> "array", val |-> elements]
JObject(keys) == [type |-> "object", val |-> keys]

\* Python's truth value of a JSON value
truthy(v) ==
    CASE v.type = "null" -> FALSE
      [] v.type = "number" -> v.val # <<"0">>
      [] OTHER -> v.val # <<>>

\* whether "\n".join(v) returns: v is iterable and yields strings only
joinable(v) ==
    \/ v.type \in {"string", "object"}
    \/ v.type = "array" /\ \A i \in 1..Len(v.val) : v.val[i].type = "string"

\* the strings that iterating over v yields: the characters of a string, the
\* elements of an array of strings, the keys of an object
items(v) ==
    CASE v.type = "string" -> [i \in 1..Len(v.val) |-> <<v.val[i]>>]
      [] v.type = "array" -> [i \in 1..Len(v.val) |-> v.val[i].val]
      [] OTHER -> v.val

\* A response: kind "empty" for None or "", "not_str" for an object that is
\* not a string (what analyze_image returns), "invalid" for text json.loads
\* rejects, "json" for text that parses to an object with the given text
\* field (has_text FALSE: no such field), "json_other" for text that parses
\* to something that is not an object.
Response(kind, has_text, text) == [kind |-> kind, has_text |-> has_text, text |-> text]

Responses ==
    << Response("empty", FALSE, JNull),
       Response("not_str", FALSE, JNull),
       Response("invalid", FALSE, JNull),
       Response("json_other", FALSE, JNull),
       Response("json", FALSE, JNull),
       Response("json", TRUE, JNull),
       Response("json", TRUE, JNumber(<<"0">>)),
       Response("json", TRUE, JNumber(<<"5">>)),
       Response("json", TRUE, JString(<<>>)),
       Response("json", TRUE, JString(<<"h", "i">>)),
       Response("json", TRUE, JObject(<<>>)),
       Response("json", TRUE, JObject(<<XY>>)),
       Response("json", TRUE, JArray(<<>>)),
       Response("json", TRUE, JArray(<<JNumber(<<"5">>)>>)),
       Response("json", TRUE, JArray(<<JString(Hello1)>>)),
       Response("json", TRUE, JArray(<<JString(Hello1), JString(Different)>>)) >>

\* ChatMonitor.process_response
process_response(response, write_ok) ==
    /\ last_arg' = None
    /\ UNCHANGED <<seen_messages, recent_messages, backup_files, accepted>>
    /\ IF response.kind # "json"
       THEN \* falsy, or clean_json_response / json.loads / data.get raised
            ret' = None /\ UNCHANGED captured_text_file
       ELSE LET text_lines == IF response.has_text THEN response.text ELSE JArray(<<>>)
            IN  IF ~truthy(text_lines) \/ ~joinable(text_lines)
                THEN ret' = None /\ UNCHANGED captured_text_file
                ELSE LET new_text == join(<<"\n">>, items(text_lines))
                     IN  /\ captured_text_file' =
                               IF new_text # <<>> /\ write_ok
                               THEN captured_text_file \o items(text_lines)
                               ELSE captured_text_file
                         /\ ret' = new_text

-----------------------------------------------------------------------------
(* The chat monitor and its callers *)

NonHeaders(file) == SelectSeq(file, LAMBDA line : ~startswith(line, HeaderPrefix))

\* The chat scrolls: the unrelated lines first arrive in order, and any line
\* that has arrived can arrive again.
Arrived(i) == i = 1 \/ normalized_of(Filler(i - 1)) \in seen_messages

Offered == {Filler(i) : i \in {j \in 1..NumFillers : Arrived(j)}} \cup Probes

InitChat ==
    /\ seen_messages = {}
    /\ recent_messages = <<>>
    /\ captured_text_file = <<>>
    /\ backup_files = NoFiles
    /\ last_arg = None
    /\ ret = None
    /\ accepted = <<>>

-----------------------------------------------------------------------------
(* MainWindow: the capture loop *)

Images == 1..NumImages

NoHash == <<"unset">>

\* last_capture.jpg does not exist
NoImage == 0

\* a digest that is the same for every image
md5_png_constant(image) == <<"md5", 0>>

\* hashlib.md5 of the PNG encoding of the image: equal bytes give equal digests,
\* and the images of the model differ in their bytes and in their digests
md5_png(image) == <<"md5", image>>

\* MainWindow.process_image
process_image(image) ==
    IF is_processing_image
    THEN UNCHANGED captureVars
    ELSE LET new_hash == md5_png(image)
         IN  /\ last_capture_file' = image
             /\ IF last_hash = NoHash \/ new_hash # last_hash
                THEN /\ last_hash' = new_hash
                     /\ capture_files' = (now :> image) @@ capture_files
                     /\ capture_outcome' = "new"
                ELSE /\ UNCHANGED <<last_hash, capture_files>>
                     /\ capture_outcome' = "same"
             \* the call of process_text_with_openai is commented out
             /\ extraction_calls' = extraction_calls
             /\ is_processing_image' = FALSE

InitCapture ==
    /\ last_hash = NoHash
    /\ last_capture_file = NoImage
    /\ capture_files = NoFiles
    /\ is_processing_image = FALSE
    /\ extraction_calls = 0
    /\ capture_outcome = "none"

-----------------------------------------------------------------------------
(* The dialog directories *)

DialogNames == (0..MaxTime) \X (1..MaxDialogFiles)

\* the loop of summarize_text that picks the sequence number: the first
\* counter from 1 for which dialogs/dialog_<ts>_<counter>.txt does not exist
first_free_counter(ts) ==
    CHOOSE c \in 1..(MaxDialogFiles + 1) :
        /\ <<ts, c>> \notin DOMAIN unplayed_dir
        /\ \A d \in 1..(c - 1) : <<ts, d>> \in DOMAIN unplayed_dir

\* a function without the key k
without(f, k) == [x \in DOMAIN f \ {k} |-> f[x]]

\* the part of summarize_text that saves the dialog lines of a response
save_dialog(lines) ==
    LET name == <<now, first_free_counter(now)>>
    IN  /\ unplayed_dir' = (name :> lines) @@ unplayed_dir
        /\ UNCHANGED <<played_dir, played_dir_exists>>

\* shutil.move(dialogs/<name>, dialogs/played/<name>) with its outcome:
\* TRUE when the file was moved, FALSE when the move raised
move_to_played(name) ==
    IF played_dir_exists
    THEN /\ played_dir' = (name :> unplayed_dir[name]) @@ played_dir
         /\ unplayed_dir' = without(unplayed_dir, name)
         /\ UNCHANGED played_dir_exists
    ELSE UNCHANGED dirVars

(* DialogSummarizer.get_previous_dialogs *)

max_files == 20

\* the paths the two globs return: the directory below output/ that holds the
\* file ("dialogs" or "dialogs/played") and the file's name
DialogPaths ==
    {<<"dialogs", f>> : f \in DOMAIN unplayed_dir}
       \cup {<<"played", f>> : f \in DOMAIN played_dir}

\* The order of sorted() on Path objects, which compares paths part by part.
\* Below output/dialogs/ the next part is the file name "dialog_<ts>_<nnn>.txt"
\* for an unplayed file and the directory name "played" for a played file, and
\* "dialog_..." < "played"; two files of one directory compare by name, that
\* is by timestamp and then by the zero-padded counter.
path_before(p, q) ==
    IF p[1] # q[1]
    THEN p[1] = "dialogs"
    ELSE \/ p[2][1] < q[2][1]
         \/ p[2][1] = q[2][1] /\ p[2][2] < q[2][2]

RECURSIVE sorted_paths(_)
\* sorted(paths)
sorted_paths(paths) ==
    IF paths = {} THEN <<>>
    ELSE LET first == CHOOSE p \in paths : \A q \in paths \ {p} : path_before(p, q)
         IN  <<first>> \o sorted_paths(paths \ {first})

\* dialog_files[-max_files:]
recent_files(dialog_files) ==
    IF Len(dialog_files) > max_files
    THEN SubSeq(dialog_files, Len(dialog_files) - max_files + 1, Len(dialog_files))
    ELSE dialog_files

\* the entries one file gives: each of its lines under the file's timestamp
timestamped_lines(path) ==
    LET content == IF path[1] = "dialogs" THEN unplayed_dir[path[2]] ELSE played_dir[path[2]]
    IN  [k \in 1..content |-> [time |-> path[2][1], path |-> path, line |-> k]]

RECURSIVE extend_dialogs(_)
\* the loop over recent_files with dialogs.extend(timestamped_lines)
extend_dialogs(files) ==
    IF files = <<>> THEN <<>>
    ELSE timestamped_lines(Head(files)) \o extend_dialogs(Tail(files))

get_previous_dialogs ==
    extend_dialogs(recent_files(sorted_paths(DialogPaths)))

\* no code of the repository creates output/dialogs/played/
InitDirs ==
    /\ unplayed_dir = NoFiles
    /\ played_dir = NoFiles
    /\ played_dir_exists \in BOOLEAN

-----------------------------------------------------------------------------
(* TTSStreamer *)

MicVolume == 70

\* another input volume the user can choose in the system settings
OtherVolume == 30

\* original_mic_volume = None
NoVolume == 0 - 1

FallbackVolume == 50

\* TTSStreamer._mute_microphone; get_ok is FALSE when _get_mic_volume returns None
_mute_microphone(get_ok) ==
    /\ original_mic_volume' =
          IF original_mic_volume = NoVolume
          THEN (IF get_ok THEN mic_volume ELSE FallbackVolume)
          ELSE original_mic_volume
    /\ mic_volume' = 0

\* a _restore_microphone that leaves the input volume alone
_restore_microphone_skipped ==
    mic_volume' = mic_volume

\* TTSStreamer._restore_microphone
_restore_microphone ==
    mic_volume' = IF original_mic_volume # NoVolume THEN original_mic_volume ELSE mic_volume

\* TTSStreamer.add_dialog
add_dialog(dialog_file) ==
    /\ scheduled_puts' =
          IF dialog_file \notin processed_files
          THEN Append(scheduled_puts, dialog_file)
          ELSE scheduled_puts
    /\ add_calls' = [add_calls EXCEPT ![dialog_file] = @ + 1]
    /\ added_late' =
          IF dialog_file \in dequeued_once THEN added_late \cup {dialog_file} ELSE added_late
    /\ UNCHANGED <<dialog_queue, is_speaking, should_stop, processed_files,
                   original_mic_volume, mic_volume, voice_control, tts_pc,
                   current_dialog, stream_result, stream_starts, dequeued_once, takes, loop_stopping>>

\* a loop_put that enters the item at the head of the queue
loop_put_front ==
    /\ tts_pc = "suspended"
    /\ ~loop_stopping
    /\ scheduled_puts # <<>>
    /\ dialog_queue' = <<Head(scheduled_puts)>> \o dialog_queue
    /\ scheduled_puts' = Tail(scheduled_puts)
    /\ UNCHANGED <<is_speaking, should_stop, processed_files, original_mic_volume,
                   mic_volume, voice_control, tts_pc, current_dialog, stream_result,
                   add_calls, stream_starts, dequeued_once, added_late, takes, loop_stopping>>

\* the event loop runs a scheduled dialog_queue.put; it runs callbacks only
\* while the worker is suspended in dialog_queue.get().  A put that has not
\* run when the loop is told to stop wakes no one: the loop ends with the
\* iteration it is in, and the worker's wake-up would be in a later one.
loop_put ==
    /\ tts_pc = "suspended"
    /\ ~loop_stopping
    /\ scheduled_puts # <<>>
    /\ dialog_queue' = Append(dialog_queue, Head(scheduled_puts))
    /\ scheduled_puts' = Tail(scheduled_puts)
    /\ UNCHANGED <<is_speaking, should_stop, processed_files, original_mic_volume,
                   mic_volume, voice_control, tts_pc, current_dialog, stream_result,
                   add_calls, stream_starts, dequeued_once, added_late, takes, loop_stopping>>

\* _process_queue from the return of dialog_queue.get() to the streaming call
worker_take(get_ok) ==
    LET dialog_file == Head(dialog_queue)
    IN  /\ dialog_queue' = Tail(dialog_queue)
        /\ dequeued_once' = dequeued_once \cup {dialog_file}
        /\ IF dialog_file \in processed_files
           THEN /\ tts_pc' = "ready"
                /\ UNCHANGED <<is_speaking, voice_control, original_mic_volume,
                               mic_volume, current_dialog, stream_starts>>
           ELSE /\ is_speaking' = TRUE
                /\ voice_control' = FALSE
                /\ _mute_microphone(get_ok)
                /\ current_dialog' = dialog_file
                /\ stream_starts' = [stream_starts EXCEPT ![dialog_file] = @ + 1]
                /\ tts_pc' = "streaming"
        /\ UNCHANGED <<scheduled_puts, should_stop, processed_files, stream_result,
                       add_calls, added_late, loop_stopping>>
        /\ takes' = takes + 1

\* _process_queue at the top of its loop, not having yielded to the event loop
worker_loop(get_ok) ==
    /\ tts_pc = "ready"
    /\ IF should_stop
       THEN tts_pc' = "exited" /\ UNCHANGED <<dialog_queue, scheduled_puts, is_speaking,
                should_stop, processed_files, original_mic_volume, mic_volume,
                voice_control, current_dialog, stream_result, add_calls, stream_starts,
                dequeued_once, added_late, takes, loop_stopping>>
       ELSE IF is_speaking
       THEN UNCHANGED ttsVars
       ELSE IF dialog_queue = <<>>
       THEN tts_pc' = "suspended" /\ UNCHANGED <<dialog_queue, scheduled_puts, is_speaking,
                should_stop, processed_files, original_mic_volume, mic_volume,
                voice_control, current_dialog, stream_result, add_calls, stream_starts,
                dequeued_once, added_late, takes, loop_stopping>>
       ELSE worker_take(get_ok)
    /\ UNCHANGED dirVars

\* a worker whose streaming call yields to the event loop, so that a take can
\* run while an item is still being streamed
worker_resume_while_streaming(get_ok) ==
    /\ tts_pc \in {"suspended", "streaming"}
    /\ dialog_queue # <<>>
    /\ worker_take(get_ok)
    /\ UNCHANGED dirVars

\* _process_queue resumed by an item arriving in the queue
worker_resume(get_ok) ==
    /\ tts_pc = "suspended"
    /\ dialog_queue # <<>>
    /\ worker_take(get_ok)
    /\ UNCHANGED dirVars

\* a worker_finish whose cleanup runs only when the streaming returned
worker_finish_cleanup_on_success(result) ==
    /\ tts_pc = "streaming"
    /\ stream_result' = result
    /\ IF result = "ok"
       THEN /\ processed_files' = processed_files \cup {current_dialog}
            /\ IF current_dialog \in DOMAIN unplayed_dir
               THEN move_to_played(current_dialog)
               ELSE UNCHANGED dirVars
            /\ _restore_microphone
            /\ voice_control' = TRUE
            /\ is_speaking' = FALSE
       ELSE UNCHANGED <<processed_files, dirVars, mic_volume, voice_control, is_speaking>>
    /\ tts_pc' = "ready"
    /\ UNCHANGED <<dialog_queue, scheduled_puts, should_stop, original_mic_volume,
                   current_dialog, add_calls, stream_starts, dequeued_once, added_late, takes, loop_stopping>>

\* _process_queue from the end of the streaming call to the end of the finally
\* block; result is "ok" when convert_as_stream and stream returned, "error"
\* when one of them raised
worker_finish(result) ==
    /\ tts_pc = "streaming"
    /\ stream_result' = result
    /\ IF result = "ok"
       THEN /\ processed_files' = processed_files \cup {current_dialog}
            /\ IF current_dialog \in DOMAIN unplayed_dir
               THEN move_to_played(current_dialog)
               ELSE UNCHANGED dirVars
       ELSE UNCHANGED <<processed_files, dirVars>>
    /\ _restore_microphone
    /\ voice_control' = TRUE
    /\ is_speaking' = FALSE
    /\ tts_pc' = "ready"
    /\ UNCHANGED <<dialog_queue, scheduled_puts, should_stop, original_mic_volume,
                   current_dialog, add_calls, stream_starts, dequeued_once, added_late, takes, loop_stopping>>

\* TTSStreamer.stop, its first statement: self.should_stop = True
stop_set_flag ==
    /\ ~should_stop
    /\ should_stop' = TRUE
    /\ UNCHANGED <<dialog_queue, scheduled_puts, is_speaking, processed_files,
                   original_mic_volume, mic_volume, voice_control, tts_pc, current_dialog,
                   stream_result, add_calls, stream_starts, dequeued_once, added_late,
                   takes, loop_stopping>>

\* the event loop has nothing to run and waits in its selector
loop_idle ==
    tts_pc = "suspended" /\ dialog_queue = <<>> /\ scheduled_puts = <<>>

\* TTSStreamer.stop, its second statement: self.loop.stop(), called from the
\* caller's thread.  It sets the loop's flag and wakes nothing: a loop waiting
\* in its selector (in_select) stays there; a loop that is ending an iteration
\* with nothing left to run sees the flag and stops.
stop_loop(in_select) ==
    /\ should_stop
    /\ ~loop_stopping
    /\ loop_stopping' = TRUE
    /\ tts_pc' = IF loop_idle /\ ~in_select THEN "exited" ELSE tts_pc
    /\ UNCHANGED <<dialog_queue, scheduled_puts, is_speaking, should_stop, processed_files,
                   original_mic_volume, mic_volume, voice_control, current_dialog,
                   stream_result, add_calls, stream_starts, dequeued_once, added_late,
                   takes>>

\* run_forever leaves its loop at the end of the iteration in which it finds
\* the flag set, the worker still suspended in dialog_queue.get()
loop_exit ==
    /\ loop_stopping
    /\ tts_pc = "suspended"
    /\ ~loop_idle
    /\ tts_pc' = "exited"
    /\ UNCHANGED <<dialog_queue, scheduled_puts, is_speaking, should_stop, processed_files,
                   original_mic_volume, mic_volume, voice_control, current_dialog,
                   stream_result, add_calls, stream_starts, dequeued_once, added_late,
                   takes, loop_stopping>>

InitTTS ==
    /\ dialog_queue = <<>>
    /\ scheduled_puts = <<>>
    /\ is_speaking = FALSE
    /\ should_stop = FALSE
    /\ processed_files = {}
    /\ original_mic_volume = NoVolume
    /\ mic_volume = MicVolume
    /\ voice_control = TRUE
    /\ tts_pc = "ready"
    /\ current_dialog = None
    /\ stream_result = "none"
    /\ add_calls = [f \in DialogNames |-> 0]
    /\ stream_starts = [f \in DialogNames |-> 0]
    /\ dequeued_once = {}
    /\ added_late = {}
    /\ takes = 0
    /\ loop_stopping = FALSE

\* MainWindow.__init__: no window, no region, no selector; no region.json
InitRegion ==
    /\ selected_window = [x |-> 0, y |-> 0, width |-> 0, height |-> 0]
    /\ region = selected_window
    /\ relative_region = selected_window
    /\ region_file = selected_window
    /\ region_selector = [open |-> FALSE, window_bounds |-> selected_window,
                          selection |-> selected_window, initial_region |-> selected_window]
    /\ region_steps = 0

-----------------------------------------------------------------------------
(* DialogSummarizer *)

\* Invocations of process_captured_text are coroutines of one event loop: the
\* code between two awaits runs without interleaving.  Caller 1 is the loop of
\* DialogSummarizer.start.
Callers == 1..NumCallers

RECURSIVE file_text(_)
\* what f.read() returns for a file of these lines
file_text(lines) ==
    IF lines = <<>> THEN <<>> ELSE Head(lines) \o <<"\n">> \o file_text(Tail(lines))

\* the test "summarization_in_progress" at the head of process_captured_text
already_in_progress_never == FALSE

already_in_progress == summarization_in_progress

\* the test "current_text == self.current_text" of process_captured_text
same_as_current_never(text) == FALSE

same_as_current(text) == text = current_text

\* DialogSummarizer.process_captured_text, from its start to the await of the
\* chat-completion call inside summarize_text (or to its return)
process_captured_text_start(c) ==
    /\ sum_pc[c] = "idle"
    /\ IF already_in_progress
       THEN /\ skipped_once' = TRUE
            /\ UNCHANGED <<current_text, summarization_in_progress, last_summary_time,
                           text_changed_during_summarization, prompt_files,
                           response_files, sum_pc, call_started, runs, run_text,
                           changes_in_flight, changes_after, coalesced>>
       ELSE LET text == strip(file_text(captured_text_file))
            IN  IF text = <<>> \/ same_as_current(text)
                THEN UNCHANGED sumVars
                ELSE /\ summarization_in_progress' = TRUE
                     /\ current_text' = text
                     /\ last_summary_time' = now
                     /\ prompt_files' = prompt_files \cup {now}
                     /\ sum_pc' = [sum_pc EXCEPT ![c] = "awaiting"]
                     /\ call_started' = [call_started EXCEPT ![c] = now]
                     /\ runs' = runs + 1
                     /\ run_text' = text
                     /\ coalesced' = changes_in_flight
                     /\ changes_in_flight' = 0
                     /\ changes_after' = 0
                     /\ UNCHANGED <<text_changed_during_summarization, response_files,
                                    skipped_once>>

\* The rest of process_captured_text: the chat-completion call returns or
\* raises, summarize_text handles the response, the finally block clears the
\* flag.  outcome: "dialog" for a response with a non-empty dialog list of
\* `lines` lines, "no_dialog" for other valid JSON, "bad_json", "error".
process_captured_text_finish(c, outcome, lines) ==
    /\ sum_pc[c] = "awaiting"
    /\ response_files' =
          IF outcome \in {"dialog", "no_dialog"}
          THEN response_files \cup {call_started[c]}
          ELSE response_files
    /\ IF outcome = "dialog" THEN save_dialog(lines) ELSE UNCHANGED dirVars
    /\ summarization_in_progress' = FALSE
    /\ sum_pc' = [sum_pc EXCEPT ![c] = "idle"]
    /\ UNCHANGED <<current_text, last_summary_time, text_changed_during_summarization,
                   prompt_files, call_started, runs, run_text, changes_in_flight,
                   changes_after, coalesced, skipped_once>>

InitSummarizer ==
    /\ current_text = <<>>
    /\ summarization_in_progress = FALSE
    /\ last_summary_time = 0
    /\ text_changed_during_summarization = FALSE
    /\ prompt_files = {}
    /\ response_files = {}
    /\ sum_pc = [c \in Callers |-> "idle"]
    /\ call_started = [c \in Callers |-> 0]
    /\ runs = 0
    /\ run_text = <<>>
    /\ changes_in_flight = 0
    /\ changes_after = 0
    /\ coalesced = 0
    /\ skipped_once = FALSE

-----------------------------------------------------------------------------
(* Specifications *)

Init ==
    /\ InitChat
    /\ fed = <<>>
    /\ InitCapture
    /\ InitDirs
    /\ InitTTS
    /\ InitSummarizer
    /\ enqueued = <<>>
    /\ started = <<>>
    /\ previous_dialogs = <<>>
    /\ submitted = <<>>
    /\ InitRegion
    /\ now = 0

\* the same, with output/dialogs/played/ absent as in a fresh checkout
InitFresh == Init /\ ~played_dir_exists

\* a caller passes one line of the scrolling chat to process_text
ScrollLine ==
    /\ \E t \in Offered : process_text(t, TRUE)
    /\ UNCHANGED <<fed, captureVars, dirVars, ttsVars, sumVars, historyVars, regionVars, now>>

Next == ScrollLine

Spec == InitFresh /\ [][Next]_vars

(* Scripted scenarios: up to MaxFed calls on a fresh monitor, recorded in fed *)

ClearMark == <<"clear_history">>

FeedLine ==
    /\ Len(fed) < MaxFed
    /\ \E t \in ScenarioLines :
          /\ process_text(t, TRUE)
          /\ fed' = Append(fed, t)
    /\ UNCHANGED <<captureVars, dirVars, ttsVars, sumVars, historyVars, regionVars, now>>

ClearHistory ==
    /\ Len(fed) < MaxFed
    /\ clear_history
    /\ fed' = Append(fed, ClearMark)
    /\ UNCHANGED <<captureVars, dirVars, ttsVars, sumVars, historyVars, regionVars, now>>

Tick ==
    /\ now < MaxTime
    /\ now' = now + 1
    /\ UNCHANGED <<chatVars, fed, captureVars, dirVars, ttsVars, sumVars, historyVars, regionVars>>

NextScenario == FeedLine \/ ClearHistory \/ Tick

SpecScenario == InitFresh /\ [][NextScenario]_vars

(* Responses of the vision model handed to process_response *)

ProcessResponse ==
    /\ Len(captured_text_file) < MaxTranscript
    /\ \E i \in 1..Len(Responses) : process_response(Responses[i], TRUE)
    /\ UNCHANGED <<fed, captureVars, dirVars, ttsVars, sumVars, historyVars, regionVars, now>>

NextResponse == ProcessResponse \/ ClearHistory

SpecResponse == InitFresh /\ [][NextResponse]_vars

(* The monitor fed by both of its entry points *)

MonitorLines == {Hello1, Hello2, Header}

FeedMonitorLine ==
    /\ Len(fed) < MaxFed
    /\ \E t \in MonitorLines :
          /\ process_text(t, TRUE)
          /\ fed' = Append(fed, t)
    /\ UNCHANGED <<captureVars, dirVars, ttsVars, sumVars, historyVars, regionVars, now>>

NextMonitor == FeedMonitorLine \/ ProcessResponse \/ ClearHistory

SpecMonitor == InitFresh /\ [][NextMonitor]_vars

(* Scripted scenarios in which an append to the transcript can fail *)

FeedLineWrite ==
    /\ Len(fed) < MaxFed
    /\ \E t \in ScenarioLines, write_ok \in BOOLEAN :
          /\ process_text(t, write_ok)
          /\ fed' = Append(fed, t)
    /\ UNCHANGED <<captureVars, dirVars, ttsVars, sumVars, historyVars, regionVars, now>>

NextWriteError == FeedLineWrite \/ ClearHistory

SpecWriteError == InitFresh /\ [][NextWriteError]_vars

(* The capture loop: the timer calls capture_screen once a second *)

\* MainWindow.capture_screen, with a region selected and the grab succeeding
CaptureScreen ==
    /\ \E image \in Images : process_image(image)
    /\ UNCHANGED <<chatVars, fed, dirVars, ttsVars, sumVars, historyVars, regionVars, now>>

NextCapture == CaptureScreen \/ Tick

SpecCapture == InitFresh /\ [][NextCapture]_vars

(* The TTS streamer, its callers and the summarizer's saved files *)

\* the number of add_dialog calls made so far
TotalAddCalls ==
    LET S == {<<f, n>> \in DialogNames \X (1..MaxAdds) : n <= add_calls[f]}
    IN  Cardinality(S)

\* the summarizer saves the dialog lines of a response
SaveDialog ==
    /\ \/ <<now, first_free_counter(now)>> \in DOMAIN played_dir
       \/ Cardinality(DOMAIN unplayed_dir \cup DOMAIN played_dir) < MaxDialogFiles
    /\ save_dialog(1)
    /\ UNCHANGED <<chatVars, fed, captureVars, ttsVars, sumVars, historyVars, regionVars, now>>

\* a thread calls add_dialog with the path of a dialog file
AddDialog ==
    /\ TotalAddCalls < MaxAdds
    /\ \E f \in DOMAIN unplayed_dir \cup DOMAIN played_dir : add_dialog(f)
    /\ UNCHANGED <<chatVars, fed, captureVars, dirVars, sumVars, historyVars, regionVars, now>>

LoopPut ==
    /\ loop_put
    /\ UNCHANGED <<chatVars, fed, captureVars, dirVars, sumVars, historyVars, regionVars, now>>

WorkerLoop ==
    /\ \E get_ok \in BOOLEAN : worker_loop(get_ok)
    /\ UNCHANGED <<chatVars, fed, captureVars, sumVars, historyVars, regionVars, now>>

WorkerResume ==
    /\ \E get_ok \in BOOLEAN : worker_resume(get_ok)
    /\ UNCHANGED <<chatVars, fed, captureVars, sumVars, historyVars, regionVars, now>>

WorkerFinish ==
    /\ \E result \in {"ok", "error"} : worker_finish(result)
    /\ UNCHANGED <<chatVars, fed, captureVars, sumVars, historyVars, regionVars, now>>

\* the user changes the input volume in the system settings, between playbacks
UserSetsVolume ==
    /\ tts_pc # "streaming"
    /\ \E v \in {MicVolume, OtherVolume} :
          /\ v # mic_volume
          /\ mic_volume' = v
    /\ UNCHANGED <<dialog_queue, scheduled_puts, is_speaking, should_stop, processed_files,
                   original_mic_volume, voice_control, tts_pc, current_dialog, stream_result,
                   add_calls, stream_starts, dequeued_once, added_late, takes, loop_stopping>>
    /\ UNCHANGED <<chatVars, fed, captureVars, dirVars, sumVars, historyVars, regionVars, now>>

TickTTS ==
    /\ now < MaxTime
    /\ now' = now + 1
    /\ UNCHANGED <<chatVars, fed, captureVars, dirVars, ttsVars, sumVars, historyVars, regionVars>>

NextTTS ==
    \/ SaveDialog \/ AddDialog \/ LoopPut \/ WorkerLoop \/ WorkerResume \/ WorkerFinish
    \/ TickTTS

SpecTTS == Init /\ [][NextTTS]_vars

\* The worker's thread and its event loop keep running (stop() is not called),
\* and every streaming call returns or raises.
FairTTS ==
    /\ WF_vars(LoopPut)
    /\ WF_vars(WorkerLoop)
    /\ WF_vars(WorkerResume)
    /\ WF_vars(WorkerFinish)

\* The streamer with a user who changes the input volume
NextTTSVolume ==
    \/ SaveDialog \/ AddDialog \/ LoopPut \/ WorkerLoop \/ WorkerResume \/ WorkerFinish
    \/ UserSetsVolume

SpecTTSVolume == Init /\ [][NextTTSVolume]_vars

\* The worker's progress depends neither on the clock nor on the input volume.
NextTTSLive ==
    SaveDialog \/ AddDialog \/ LoopPut \/ WorkerLoop \/ WorkerResume \/ WorkerFinish

SpecTTSLive == Init /\ [][NextTTSLive]_vars /\ FairTTS

(* The streamer with the order of its enqueues and playbacks recorded *)

\* the histories enqueued and started, for a step of the streamer
record_order ==
    /\ enqueued' =
          IF Len(scheduled_puts') > Len(scheduled_puts)
          THEN Append(enqueued, scheduled_puts'[Len(scheduled_puts')])
          ELSE enqueued
    /\ started' =
          IF stream_starts' # stream_starts
          THEN Append(started, current_dialog')
          ELSE started
    /\ UNCHANGED <<previous_dialogs, submitted>>
    /\ UNCHANGED regionVars

AddDialogOrdered ==
    /\ TotalAddCalls < MaxAdds
    /\ \E f \in DOMAIN unplayed_dir \cup DOMAIN played_dir : add_dialog(f)
    /\ record_order
    /\ UNCHANGED <<chatVars, fed, captureVars, dirVars, sumVars, now>>

LoopPutOrdered ==
    /\ loop_put
    /\ record_order
    /\ UNCHANGED <<chatVars, fed, captureVars, dirVars, sumVars, now>>

WorkerLoopOrdered ==
    /\ \E get_ok \in BOOLEAN : worker_loop(get_ok)
    /\ record_order
    /\ UNCHANGED <<chatVars, fed, captureVars, sumVars, now>>

WorkerResumeOrdered ==
    /\ \E get_ok \in BOOLEAN : worker_resume(get_ok)
    /\ record_order
    /\ UNCHANGED <<chatVars, fed, captureVars, sumVars, now>>

WorkerFinishOrdered ==
    /\ \E result \in {"ok", "error"} : worker_finish(result)
    /\ record_order
    /\ UNCHANGED <<chatVars, fed, captureVars, sumVars, now>>

NextTTSOrder ==
    \/ SaveDialog \/ AddDialogOrdered \/ LoopPutOrdered \/ WorkerLoopOrdered
    \/ WorkerResumeOrdered \/ WorkerFinishOrdered

SpecTTSOrder == Init /\ [][NextTTSOrder]_vars

(* The dialog directories as the streamer fills them, read by summarize_text *)

\* summarize_text, its first statement: the history context is built
BuildHistory ==
    /\ previous_dialogs' = get_previous_dialogs
    /\ UNCHANGED <<enqueued, started, submitted>>
    /\ UNCHANGED <<chatVars, fed, captureVars, dirVars, ttsVars, sumVars, regionVars, now>>

NextHistory == NextTTS \/ BuildHistory

SpecHistory == Init /\ [][NextHistory]_vars

(* The streamer and a thread that calls stop() *)

StopSetFlag ==
    /\ stop_set_flag
    /\ UNCHANGED <<chatVars, fed, captureVars, dirVars, sumVars, historyVars, regionVars, now>>

StopLoop ==
    /\ \E in_select \in BOOLEAN : stop_loop(in_select)
    /\ UNCHANGED <<chatVars, fed, captureVars, dirVars, sumVars, historyVars, regionVars, now>>

LoopExit ==
    /\ loop_exit
    /\ UNCHANGED <<chatVars, fed, captureVars, dirVars, sumVars, historyVars, regionVars, now>>

NextTTSStop ==
    \/ SaveDialog \/ AddDialog \/ LoopPut \/ WorkerLoop \/ WorkerResume \/ WorkerFinish
    \/ StopSetFlag \/ StopLoop \/ LoopExit

\* The worker's thread keeps running, every streaming call returns or raises,
\* and a loop that is awake ends its iteration.
SpecTTSStop == Init /\ [][NextTTSStop]_vars /\ FairTTS /\ WF_vars(LoopExit)

(* The summarizer, its callers, and the chat monitor writing the transcript *)

SummarizerLines == {Hello1, Header}

\* the history of transcript changes, for a step that sets captured_text_file'
count_change ==
    IF captured_text_file' = captured_text_file
    THEN UNCHANGED <<changes_in_flight, changes_after>>
    ELSE IF summarization_in_progress
    THEN changes_in_flight' = changes_in_flight + 1 /\ UNCHANGED changes_after
    ELSE changes_after' = changes_after + 1 /\ UNCHANGED changes_in_flight

unchanged_but_changes ==
    UNCHANGED <<current_text, summarization_in_progress, last_summary_time,
                text_changed_during_summarization, prompt_files, response_files, sum_pc,
                call_started, runs, run_text, coalesced, skipped_once>>

\* the chat monitor writes to the transcript
TranscriptLine ==
    /\ Len(fed) < MaxFed
    /\ \E t \in SummarizerLines :
          /\ process_text(t, TRUE)
          /\ fed' = Append(fed, t)
    /\ count_change
    /\ unchanged_but_changes
    /\ UNCHANGED <<captureVars, dirVars, ttsVars, historyVars, regionVars, now>>

\* the chat monitor rotates the transcript
TranscriptCleared ==
    /\ Len(fed) < MaxFed
    /\ clear_history
    /\ fed' = Append(fed, ClearMark)
    /\ count_change
    /\ unchanged_but_changes
    /\ UNCHANGED <<captureVars, dirVars, ttsVars, historyVars, regionVars, now>>

Poll ==
    /\ \E c \in Callers : process_captured_text_start(c)
    /\ UNCHANGED <<chatVars, fed, captureVars, dirVars, ttsVars, historyVars, regionVars, now>>

ResponseArrives ==
    /\ \E c \in Callers, outcome \in {"dialog", "no_dialog", "bad_json", "error"},
          lines \in 1..MaxResponseLines :
          /\ outcome = "dialog" => Cardinality(DOMAIN unplayed_dir) < MaxDialogFiles
          /\ process_captured_text_finish(c, outcome, lines)
    /\ UNCHANGED <<chatVars, fed, captureVars, ttsVars, historyVars, regionVars, now>>

TickSummarizer ==
    /\ now < MaxTime
    /\ now' = now + 1
    /\ UNCHANGED <<chatVars, fed, captureVars, dirVars, ttsVars, sumVars, historyVars, regionVars>>

NextSummarizer ==
    TranscriptLine \/ TranscriptCleared \/ Poll \/ ResponseArrives

SpecSummarizer == InitFresh /\ [][NextSummarizer]_vars

\* the same with the clock that names the prompt, response and dialog files
NextSummarizerClock == NextSummarizer \/ TickSummarizer

SpecSummarizerClock == InitFresh /\ [][NextSummarizerClock]_vars

(* The summarizer over a longer life of the transcript, with the texts it gives
   to the model recorded; the counts of the transcript changes are not kept *)

MaxChanges == 4

TranscriptLineLong ==
    /\ Len(fed) < MaxChanges
    /\ \E t \in SummarizerLines :
          /\ process_text(t, TRUE)
          /\ fed' = Append(fed, t)
    /\ UNCHANGED <<captureVars, dirVars, ttsVars, sumVars, historyVars, regionVars, now>>

TranscriptClearedLong ==
    /\ Len(fed) < MaxChanges
    /\ clear_history
    /\ fed' = Append(fed, ClearMark)
    /\ UNCHANGED <<captureVars, dirVars, ttsVars, sumVars, historyVars, regionVars, now>>

PollRecorded ==
    /\ \E c \in Callers : process_captured_text_start(c)
    /\ submitted' = IF runs' = runs + 1 THEN Append(submitted, run_text') ELSE submitted
    /\ UNCHANGED <<enqueued, started, previous_dialogs>>
    /\ UNCHANGED <<chatVars, fed, captureVars, dirVars, ttsVars, regionVars, now>>

NextSubmissions ==
    TranscriptLineLong \/ TranscriptClearedLong \/ PollRecorded \/ ResponseArrives

SpecSubmissions == InitFresh /\ [][NextSubmissions]_vars

-----------------------------------------------------------------------------
(* MainWindow and RegionSelector: the capture region *)

Rect(x, y, width, height) == [x |-> x, y |-> y, width |-> width, height |-> height]

\* None for a region or a window; an absent region.json
NoRegion == Rect(0, 0, 0, 0)

\* no RegionSelector is shown
NoSelector == [open |-> FALSE, window_bounds |-> NoRegion, selection |-> NoRegion,
               initial_region |-> NoRegion]

Origins == 0..MaxOrigin
Sizes == 1..MaxSize

\* the bounds the window list can report
WindowBounds == {Rect(x, y, w, h) : x \in Origins, y \in Origins, w \in Sizes, h \in Sizes}

\* the conversion of load_saved_region and check_windsurf_windows
to_absolute(bounds, relative) ==
    Rect(bounds.x + relative.x, bounds.y + relative.y, relative.width, relative.height)

\* the conversion of on_region_selected
to_relative(bounds, absolute) ==
    Rect(absolute.x - bounds.x, absolute.y - bounds.y, absolute.width, absolute.height)

\* the region confirm_selection emits
emitted(selection, window_bounds) ==
    Rect(selection.x + window_bounds.x, selection.y + window_bounds.y,
         selection.width, selection.height)

\* MainWindow.on_window_selected(index) for the item that holds `window`,
\* with load_saved_region
on_window_selected(window) ==
    /\ selected_window' = window
    /\ IF region_file # NoRegion
       THEN /\ region' = to_absolute(window, region_file)
            /\ relative_region' = region_file
       ELSE /\ region' = window
            /\ UNCHANGED relative_region
    /\ UNCHANGED <<region_file, region_selector>>

\* MainWindow.on_window_selected(-1), when a window was selected
on_window_deselected ==
    /\ selected_window # NoRegion
    /\ selected_window' = NoRegion
    /\ UNCHANGED <<region, relative_region, region_file, region_selector>>

\* MainWindow.check_windsurf_windows when the selected window is in the list
\* with bounds of origin `window` (only x and y are read; selected_window keeps
\* the bounds it was selected with)
check_windsurf_windows(window) ==
    /\ selected_window # NoRegion
    /\ relative_region # NoRegion
    /\ region' = to_absolute(window, relative_region)
    /\ UNCHANGED <<selected_window, relative_region, region_file, region_selector>>

\* MainWindow.select_region with RegionSelector.__init__
select_region ==
    /\ selected_window # NoRegion
    /\ region_selector' =
          [open |-> TRUE,
           window_bounds |-> selected_window,
           selection |-> IF region # NoRegion THEN region ELSE selected_window,
           initial_region |-> region]
    /\ UNCHANGED <<selected_window, region, relative_region, region_file>>

\* RegionSelector.mouseMoveEvent while dragging: selection.moveTopLeft(new_pos)
mouse_drag(x, y) ==
    /\ region_selector.open
    /\ region_selector' =
          [region_selector EXCEPT !.selection =
              Rect(x, y, region_selector.selection.width, region_selector.selection.height)]
    /\ UNCHANGED <<selected_window, region, relative_region, region_file>>

\* RegionSelector.mouseMoveEvent while resizing by the SE handle:
\* selection.setBottomRight(pos), for the pos that gives this width and height
mouse_resize(width, height) ==
    /\ region_selector.open
    /\ region_selector' =
          [region_selector EXCEPT !.selection =
              Rect(region_selector.selection.x, region_selector.selection.y, width, height)]
    /\ UNCHANGED <<selected_window, region, relative_region, region_file>>

\* RegionSelector.mousePressEvent outside the selection and its handles:
\* selection = QRect(pos, pos)
mouse_press_outside(x, y) ==
    /\ region_selector.open
    /\ region_selector.selection # Rect(x, y, 1, 1)
    /\ region_selector' = [region_selector EXCEPT !.selection = Rect(x, y, 1, 1)]
    /\ UNCHANGED <<selected_window, region, relative_region, region_file>>

\* RegionSelector.confirm_selection, with the slot MainWindow.on_region_selected
\* that regionSelected.emit runs, and self.close().  With no window selected
\* the slot raises at selected_window['bounds'] and saves nothing.
confirm_selection ==
    /\ region_selector.open
    /\ LET new_region == emitted(region_selector.selection, region_selector.window_bounds)
       IN  IF selected_window # NoRegion
           THEN /\ region_file' = to_relative(selected_window, new_region)
                /\ region' = new_region
                /\ relative_region' = to_relative(selected_window, new_region)
           ELSE UNCHANGED <<region, relative_region, region_file>>
    /\ region_selector' = NoSelector
    /\ UNCHANGED selected_window

\* RegionSelector.keyPressEvent(Escape)
close_selector ==
    /\ region_selector.open
    /\ region_selector' = NoSelector
    /\ UNCHANGED <<selected_window, region, relative_region, region_file>>

region_step ==
    /\ region_steps < MaxRegionSteps
    /\ region_steps' = region_steps + 1
    /\ UNCHANGED <<chatVars, fed, captureVars, dirVars, ttsVars, sumVars, historyVars, now>>

WindowSelected == region_step /\ \E window \in WindowBounds : on_window_selected(window)

WindowDeselected == region_step /\ on_window_deselected

WindowsChecked ==
    region_step /\ \E x \in Origins, y \in Origins : check_windsurf_windows(Rect(x, y, 1, 1))

SelectRegion == region_step /\ select_region

MouseDrag == region_step /\ \E x \in Origins, y \in Origins : mouse_drag(x, y)

MouseResize == region_step /\ \E w \in Sizes, h \in Sizes : mouse_resize(w, h)

MousePressOutside == region_step /\ \E x \in Origins, y \in Origins : mouse_press_outside(x, y)

ConfirmSelection == region_step /\ confirm_selection

CloseSelector == region_step /\ close_selector

NextRegion ==
    \/ CloseSelector
    \/ ConfirmSelection
    \/ WindowsChecked
    \/ SelectRegion
    \/ MouseDrag
    \/ MouseResize
    \/ MousePressOutside
    \/ WindowDeselected
    \/ WindowSelected

SpecRegion == InitFresh /\ [][NextRegion]_vars

-----------------------------------------------------------------------------
(* Properties of the chat monitor *)

\* the normalized word sets of t1 and t2 overlap by more than 0.8 (Jaccard)
JaccardAbove80(t1, t2) ==
    LET w1 == Range(split(_normalize_message(t1)))
        w2 == Range(split(_normalize_message(t2)))
    IN  /\ w1 \cup w2 # {}
        /\ 5 * Cardinality(w1 \cap w2) > 4 * Cardinality(w1 \cup w2)

OverlapTable == [p \in AllTexts \X AllTexts |-> JaccardAbove80(p[1], p[2])] @@ Empty

WordOverlapAbove80(t1, t2) == OverlapTable[<<t1, t2>>]

\* neither normalized form is a substring of the other
NoSubstringTable ==
    [p \in AllTexts \X AllTexts |->
        LET a == _normalize_message(p[1])
            b == _normalize_message(p[2])
        IN  ~is_substring(a, b) /\ ~is_substring(b, a)] @@ Empty

IsHeaderLine(t) == startswith(strip(t), HeaderPrefix)

\* C1: a process_text call on a text accepted since the last clear_history
\* returns the empty string and leaves the transcript, the seen set and the
\* recent window unchanged, however many lines were processed in between.
C1_AcceptedTextIsRejectedAgain ==
    [][\A t \in Lines :
          (process_text(t, TRUE) /\ strip(t) \in Range(accepted))
          => /\ ret' = <<>>
             /\ UNCHANGED <<captured_text_file, seen_messages, recent_messages>>]_vars

\* C1 witness: a line accepted earlier and since pushed out of the recent
\* window was submitted again and rejected.
C1_Witness ==
    /\ last_arg # None
    /\ strip(last_arg) \in Range(accepted)
    /\ strip(last_arg) \notin Range(recent_messages)
    /\ Len(accepted) > max_recent
    /\ ret = <<>>

\* C2 as stated: once t1 was accepted, a line t2 whose word overlap with t1
\* exceeds 0.8 is rejected, however many lines were accepted in between.
C2_OverlapRejectedForever ==
    [][\A t2 \in Lines : \A i \in 1..Len(accepted) :
          (process_text(t2, TRUE) /\ WordOverlapAbove80(accepted[i], t2))
          => ret' = <<>>]_vars

\* C2 amended: while t1 is still in the recent window, a non-header line t2
\* whose word overlap with t1 exceeds 0.8 is rejected.
C2_OverlapRejectedWhileRecent ==
    [][\A t2 \in Lines : \A i \in 1..Len(recent_messages) :
          (/\ process_text(t2, TRUE)
           /\ ~IsHeaderLine(t2)
           /\ WordOverlapAbove80(recent_messages[i], t2))
          => /\ ret' = <<>>
             /\ UNCHANGED <<captured_text_file, seen_messages, recent_messages>>]_vars

\* C2 witness: a line was rejected that is no exact duplicate and no substring
\* relative of any recent line, but overlaps one of them by more than 0.8.
C2_Witness ==
    /\ last_arg # None
    /\ ret = <<>>
    /\ normalized_of(last_arg) \notin seen_messages
    /\ \E i \in 1..Len(recent_messages) :
          WordOverlapAbove80(recent_messages[i], last_arg)
    /\ \A i \in 1..Len(recent_messages) :
          NoSubstringTable[<<recent_messages[i], last_arg>>]

\* the headers fed since the last clear_history, in order
RECURSIVE HeadersFed(_)
HeadersFed(calls) ==
    IF calls = <<>> THEN <<>>
    ELSE LET rest == HeadersFed(SubSeq(calls, 1, Len(calls) - 1))
             last == calls[Len(calls)]
         IN  IF last = ClearMark THEN <<>>
             ELSE IF IsHeaderLine(last) THEN Append(rest, strip(last))
             ELSE rest

LastN(s, n) == SubSeq(s, Len(s) - n + 1, Len(s))

\* C4: the recent window holds at most 10 entries: the lines accepted last, in
\* the order they were accepted, so the 11th accepted line pushes out the 1st.
C4_RecentWindowBounded ==
    /\ Len(recent_messages) <= 10
    /\ recent_messages =
          LastN(accepted, IF Len(accepted) < 10 THEN Len(accepted) ELSE 10)

\* C4 witness: eleven lines were accepted and the first one has left the window.
C4_Witness ==
    /\ Len(accepted) = 11
    /\ Len(recent_messages) = 10
    /\ accepted[1] \notin Range(recent_messages)
    /\ recent_messages[1] = accepted[2]

\* C5: fed "Hello there.", "hello   there", "A completely different sentence."
\* in that order, a fresh monitor accepts the first, rejects the second and
\* accepts the third; the transcript ends with exactly 2 non-header lines.
C5_HelloScenario ==
    /\ fed = <<Hello1>> => ret = Hello1
    /\ fed = <<Hello1, Hello2>> => ret = <<>> /\ captured_text_file = <<Hello1>>
    /\ fed = <<Hello1, Hello2, Different>> =>
          /\ ret = Different
          /\ captured_text_file = <<Hello1, Different>>
          /\ Len(NonHeaders(captured_text_file)) = 2

\* C5 witness: the three lines of the scenario were fed.
C5_Witness == fed = <<Hello1, Hello2, Different>>

\* a call that reaches the duplicate test of process_text and passes it
IsNewLine(t) ==
    /\ t # NO_NEW_MESSAGES
    /\ strip(t) # <<>>
    /\ ~IsHeaderLine(t)
    /\ ~_is_duplicate(strip(t))

HasNoTextList(response) ==
    \/ response.kind \in {"invalid", "json_other"}
    \/ response.kind = "json" /\ ~response.has_text
    \/ response.kind = "json" /\ response.has_text /\ response.text.type # "array"

\* C18 as stated: for a response that does not parse, lacks the text field or
\* has a text field that is not a list, process_response returns None and
\* appends nothing to the transcript.
C18_NoTextListGivesNoText ==
    [][\A i \in 1..Len(Responses) :
          (process_response(Responses[i], TRUE) /\ HasNoTextList(Responses[i]))
          => /\ ret' = None
             /\ captured_text_file' = captured_text_file]_vars

\* C24 as stated: no two non-header lines of the transcript have the same
\* normalized form, whatever process_text and process_response calls were made
\* since the last clear_history.
C24_TranscriptLinesAreDistinct ==
    LET lines == NonHeaders(captured_text_file)
    IN  \A i, j \in 1..Len(lines) :
           i # j => _normalize_message(lines[i]) # _normalize_message(lines[j])

\* a line that no caller of the model submits
Unsubmitted == <<"z","z","z">>

\* C25 as stated: in every state reached by process_text calls some non-empty
\* line that is no header would be accepted if it were submitted.
C25_SomeLineIsAcceptable ==
    \E t \in Lines \cup {Unsubmitted} : IsNewLine(t)

\* C29: a process_text call whose append fails, on a line that is no header and
\* no duplicate, still adds the normalized form to the seen set, pushes the
\* line on the recent window and returns it, with the transcript unchanged; a
\* later call with a line accepted that way, which the transcript does not
\* hold, returns the empty string and changes nothing.
C29_FailedAppendIsNotRolledBack ==
    /\ [][\A t \in ScenarioLines :
            (process_text(t, FALSE) /\ IsNewLine(t))
            => /\ seen_messages' = seen_messages \cup {normalized_of(strip(t))}
               /\ recent_messages' = push_recent(recent_messages, strip(t))
               /\ ret' = strip(t)
               /\ captured_text_file' = captured_text_file]_vars
    /\ [][\A t \in ScenarioLines, write_ok \in BOOLEAN :
            (/\ process_text(t, write_ok)
             /\ ~IsHeaderLine(t)
             /\ strip(t) \in Range(accepted)
             /\ strip(t) \notin Range(captured_text_file))
            => /\ ret' = <<>>
               /\ UNCHANGED <<captured_text_file, seen_messages, recent_messages>>]_vars

\* a line whose append had failed was submitted again and rejected, and the
\* transcript is still empty
C29_Witness ==
    /\ fed = <<Hello1, Hello1>>
    /\ accepted = <<Hello1>>
    /\ ret = <<>>
    /\ captured_text_file = <<>>
    /\ seen_messages = {normalized_of(Hello1)}
    /\ recent_messages = <<Hello1>>

\* C30: the normalized form of every entry of the recent window is in the seen
\* set, and a step that is no clear_history removes nothing from the seen set.
C30_RecentIsSeenAndSeenGrows ==
    /\ [](\A i \in 1..Len(recent_messages) :
             normalized_of(recent_messages[i]) \in seen_messages)
    /\ [][fed' # Append(fed, ClearMark) => seen_messages \subseteq seen_messages']_vars

\* the history was cleared after a line had been accepted, and another line
\* was accepted since
C30_Witness ==
    /\ fed = <<Hello1, ClearMark, Different>>
    /\ recent_messages = <<Different>>
    /\ seen_messages = {normalized_of(Different)}

-----------------------------------------------------------------------------
(* Properties of the capture loop *)

\* C8 as stated: a capture whose fingerprint differs from the stored one (or
\* the first capture) stores the fingerprint, writes the timestamped copy and
\* dispatches one extraction; a capture bit-identical to the previous one
\* dispatches none and leaves the stored fingerprint alone.
C8_OnlyFirstOfIdenticalPairExtracts ==
    [][\A image \in Images :
          (process_image(image) /\ ~is_processing_image)
          => IF last_hash = NoHash \/ md5_png(image) # last_hash
             THEN /\ last_hash' = md5_png(image)
                  /\ now \in DOMAIN capture_files'
                  /\ capture_files'[now] = image
                  /\ extraction_calls' = extraction_calls + 1
             ELSE /\ last_hash' = last_hash
                  /\ extraction_calls' = extraction_calls]_vars

\* C17: a capture whose fingerprint equals the stored one leaves the stored
\* fingerprint, the content of the preview file and the timestamped capture
\* files as they were, and sends nothing for extraction.
C17_SameFingerprintChangesNothing ==
    [][\A image \in Images :
          (process_image(image) /\ ~is_processing_image /\ last_hash = md5_png(image))
          => /\ capture_outcome' = "same"
             /\ last_hash' = last_hash
             /\ last_capture_file' = last_capture_file
             /\ capture_files' = capture_files
             /\ extraction_calls' = extraction_calls]_vars

\* the screen was captured unchanged a second after its first capture
C17_Witness ==
    /\ capture_outcome = "same"
    /\ last_hash # NoHash
    /\ last_hash = md5_png(last_capture_file)
    /\ now \notin DOMAIN capture_files
    /\ capture_files # NoFiles

-----------------------------------------------------------------------------
(* Properties of the TTS streamer *)

\* C6 as stated: when the worker finishes an item whose streaming succeeded and
\* whose file is in the unplayed directory, the file is afterwards in the
\* played directory and no longer in the unplayed directory.
C6_PlayedFileIsMoved ==
    [][(/\ tts_pc = "streaming"
        /\ tts_pc' = "ready"
        /\ stream_result' = "ok"
        /\ current_dialog \in DOMAIN unplayed_dir)
       => /\ current_dialog \in DOMAIN played_dir'
          /\ current_dialog \notin DOMAIN unplayed_dir']_vars

\* C7 as stated: a file added twice, both times before the worker took it from
\* the queue, has its streaming started at most once.
C7_AddedTwicePlayedOnce ==
    \A f \in DialogNames :
        (add_calls[f] = 2 /\ f \notin added_late) => stream_starts[f] <= 1

\* the total number of streaming calls started
TotalStreamStarts == LET S == {<<f, n>> \in DialogNames \X (1..MaxAdds) : n <= stream_starts[f]}
                     IN  Cardinality(S)

\* C11: from the start of streaming for one item to the end of its cleanup no
\* item is taken from the queue and no streaming starts, while add_dialog can
\* be called at any time; is_speaking is set exactly during that interval.
C11_OneDialogAtATime ==
    /\ [](is_speaking <=> tts_pc = "streaming")
    /\ [][is_speaking =>
            /\ dialog_queue' = dialog_queue
            /\ stream_starts' = stream_starts
            /\ dequeued_once' = dequeued_once
            /\ current_dialog' = current_dialog]_vars

\* an item is being streamed while another waits in the queue and add_dialog
\* has been called during the streaming
C11_Witness ==
    /\ tts_pc = "streaming"
    /\ dialog_queue # <<>>
    /\ scheduled_puts # <<>>
    /\ TotalStreamStarts = 1

\* C12: when the worker leaves an item it started, after a streaming call that
\* returned or raised, the input volume is the remembered volume, voice control
\* listens again and is_speaking is cleared, all before the next take; the
\* remembered volume is the one read (or defaulted) at the first mute and is
\* never replaced.
C12_StateRestoredAfterEveryItem ==
    /\ [][(tts_pc = "streaming" /\ tts_pc' # "streaming") =>
            /\ original_mic_volume # NoVolume
            /\ mic_volume' = original_mic_volume
            /\ voice_control'
            /\ ~is_speaking']_vars
    /\ [](tts_pc = "streaming" <=> ~voice_control)
    /\ [][original_mic_volume # NoVolume =>
            original_mic_volume' = original_mic_volume]_vars
    /\ [][(original_mic_volume = NoVolume /\ original_mic_volume' # NoVolume) =>
            /\ tts_pc' = "streaming"
            /\ TotalStreamStarts = 0
            /\ original_mic_volume' \in {mic_volume, FallbackVolume}]_vars

\* the second item's streaming raised, and the volume is back at the value
\* read at the first mute
C12_Witness ==
    /\ tts_pc = "ready"
    /\ stream_result = "error"
    /\ TotalStreamStarts = 2
    /\ original_mic_volume = OtherVolume
    /\ mic_volume = original_mic_volume
    /\ voice_control
    /\ ~is_speaking

\* C13 as stated: when the worker leaves an item it started, whether the
\* streaming returned or raised, the item's path is in processed_files, and a
\* file that was in the unplayed directory is in the played directory and no
\* longer in the unplayed one.
C13_ProcessedAndMovedWhateverTheOutcome ==
    [][(tts_pc = "streaming" /\ tts_pc' # "streaming") =>
          /\ current_dialog \in processed_files'
          /\ current_dialog \in DOMAIN unplayed_dir =>
                /\ current_dialog \in DOMAIN played_dir'
                /\ current_dialog \notin DOMAIN unplayed_dir']_vars

\* C14 as stated: no dialog file name is in the unplayed directory and in the
\* played directory at once.
C14_NameInOneDirectoryOnly ==
    DOMAIN unplayed_dir \cap DOMAIN played_dir = {}

\* C27 as stated: a dialog file that summarize_text creates has a name that no
\* file of the played directory has, and that is not in processed_files (where
\* the name of every file moved to the played directory is kept).
C27_NewDialogNameIsFresh ==
    [][\A name \in DOMAIN unplayed_dir' \ DOMAIN unplayed_dir :
          /\ name \notin DOMAIN played_dir
          /\ name \notin processed_files]_vars

\* C22: the k-th item the worker takes from the queue is the k-th item that
\* add_dialog enqueued; its playback starts at that moment unless its file is
\* already in processed_files, so playbacks start in the order of the enqueues.
C22_PlaybackInEnqueueOrder ==
    /\ [](dialog_queue \o scheduled_puts = SubSeq(enqueued, takes + 1, Len(enqueued)))
    /\ [][takes' # takes =>
            /\ takes' = takes + 1
            /\ started' = IF enqueued[takes'] \in processed_files
                          THEN started
                          ELSE Append(started, enqueued[takes'])]_vars
    /\ [][takes' = takes => started' = started]_vars

\* two different files are played in the order of their enqueues while a third
\* enqueue waits in the queue
C22_Witness ==
    /\ Len(enqueued) = 3
    /\ Len(started) = 2
    /\ started[1] # started[2]
    /\ started = SubSeq(enqueued, 1, 2)
    /\ tts_pc = "streaming"
    /\ dialog_queue = <<enqueued[3]>>

\* C23, its first part: once stop() has returned the worker starts no playback.
C23_NoPlaybackStartsAfterStop ==
    [][loop_stopping => stream_starts' = stream_starts]_vars

\* C23, its second part: once stop() has returned the worker loop ends.
C23_WorkerLoopExitsAfterStop ==
    [](loop_stopping => <>(tts_pc = "exited"))

\* C23 as stated: after stop() the worker starts the playback of no further
\* dialog, and its loop eventually exits.
C23_StopEndsPlaybackAndWorker ==
    C23_NoPlaybackStartsAfterStop /\ C23_WorkerLoopExitsAfterStop

\* the most items the callers of the model put on the queue
MaxTakes == MaxAdds

\* C19: the n-th item put on the queue is eventually taken from it by the
\* worker, whatever happened to the items before it.
C19_EveryQueuedItemIsTaken ==
    \A n \in 1..MaxTakes :
        (takes + Len(dialog_queue) >= n) ~> (takes >= n)

\* an item was taken after the streaming of the item before it had raised
C19_Witness ==
    /\ stream_result = "error"
    /\ tts_pc = "streaming"
    /\ takes = 2
    /\ TotalStreamStarts = 2
    /\ processed_files = {}

-----------------------------------------------------------------------------
(* Properties of the summarizer *)

AllIdle == \A c \in Callers : sum_pc[c] = "idle"

\* some invocation of process_captured_text, made now, gives the transcript to the model
StartsRun ==
    \E c \in Callers : process_captured_text_start(c) /\ runs' = runs + 1

TranscriptNow == strip(file_text(captured_text_file))

\* no run is started without a transcript change since the previous run
\* started, and every run is given the transcript as it is at its own start
RunsFollowChanges ==
    [][runs' # runs =>
          /\ runs' = runs + 1
          /\ run_text' = TranscriptNow
          /\ runs = 0 \/ changes_in_flight + changes_after >= 1]_vars

C10_OneSummarizationInFlight ==
    /\ [](/\ Cardinality({c \in Callers : sum_pc[c] = "awaiting"}) <= 1
          /\ summarization_in_progress <=> ~AllIdle)
    /\ [][summarization_in_progress => runs' = runs]_vars

\* an invocation found the flag set and returned; the one call is still in flight
C10_Witness ==
    /\ skipped_once
    /\ summarization_in_progress
    /\ Cardinality({c \in Callers : sum_pc[c] = "awaiting"}) = 1
    /\ TranscriptNow # current_text
    /\ TranscriptNow # <<>>

\* C26 as stated: each distinct transcript content is given to the model at
\* most once.
C26_EachContentSubmittedOnce ==
    \A i, j \in 1..Len(submitted) : i < j => submitted[i] # submitted[j]

\* C26, amended: the content given to the model is recorded as current_text
\* before the call; whatever the outcome of the call, no invocation gives the
\* model the transcript while its stripped content equals current_text, so two
\* submissions in a row never have the same content.  (A content is submitted
\* again when the transcript returns to it after another content was.)
C26_ContentNotResubmittedWhileCurrent ==
    /\ [](submitted # <<>> => current_text = submitted[Len(submitted)])
    /\ [](TranscriptNow = current_text => ~ENABLED StartsRun)
    /\ [][submitted' # submitted =>
            /\ submitted' = Append(submitted, TranscriptNow)
            /\ TranscriptNow # <<>>
            /\ submitted # <<>> => submitted[Len(submitted)] # TranscriptNow]_vars

\* the one call made so far has ended without a response that could be saved,
\* and the transcript still has the content that was submitted
C26_Witness ==
    /\ Len(submitted) = 1
    /\ AllIdle
    /\ response_files = {}
    /\ TranscriptNow = submitted[1]
    /\ ~ENABLED StartsRun

\* C28 as stated: when the selector is confirmed with its selection as it was
\* opened, the region delivered to on_region_selected is the region the
\* selector was opened with, and the relative region saved reloads, for the
\* same window bounds, to that region.
C28_ConfirmUnmovedKeepsRegion ==
    [][(/\ ConfirmSelection
        /\ selected_window # NoRegion
        /\ region_selector.initial_region # NoRegion
        /\ region_selector.selection = region_selector.initial_region)
       => /\ region' = region_selector.initial_region
          /\ to_absolute(selected_window, region_file') = region_selector.initial_region]_vars

\* C21 as stated: the history context holds at most 20 entries, each a line of
\* a file of the unplayed or of the played directory, in the order of their
\* timestamps, oldest first, whichever directory each file is in.
C21_HistoryOldestFirstAcrossDirectories ==
    /\ Len(previous_dialogs) <= 20
    /\ \A i, j \in 1..Len(previous_dialogs) :
          i < j => previous_dialogs[i].time <= previous_dialogs[j].time

\* C20 as stated: a response with a dialog list of k lines, k >= 1, creates k
\* new files in the unplayed directory, each holding one of the lines.
C20_OneFilePerDialogLine ==
    [][\A c \in Callers, k \in 1..MaxResponseLines :
          process_captured_text_finish(c, "dialog", k)
          => LET new == DOMAIN unplayed_dir' \ DOMAIN unplayed_dir
             IN  /\ Cardinality(new) = k
                 /\ \A f \in new : unplayed_dir'[f] = 1]_vars

====
